---- MODULE Spec2Model ----
(***************************************************************************)
(* The in-memory DAG chain store `Chain` of                                *)
(* src/src/python_project/backbone/datastore/chain_store.py: the state a   *)
(* Chain object holds, add_block with its five update steps, the cached    *)
(* traversal __calc_terminal, frontier and reconcile.                      *)
(*                                                                         *)
(* A block reference (seq, short hash) is a pair <<seq, hash>>; short      *)
(* hashes are small integers, ordered as Python orders the hash strings.   *)
(* Python dicts are functions with a finite domain, Python sets are sets,  *)
(* Links and Ranges tuples are sequences.                                  *)
(***************************************************************************)
EXTENDS Integers, Sequences, FiniteSets, TLC

\* Spec: chains of either mode, blocks of heights 1..MaxSeq, at most MaxBlocks of them.
MaxSeq == 2
MaxBlocks == 3
\* SpecDeep and SpecDistinct: personal chains, heights 1..DeepSeq, at most
\* DeepBlocks blocks.
DeepSeq == 4
DeepBlocks == 5
\* SpecLocked and SpecConc: calls from the threads of Threads, blocks of
\* heights 1..ConcSeq, at most ConcBlocks of them.
ConcSeq == 2
ConcBlocks == 2

VARIABLES
    personal,           \* self.personal
    versions,           \* self.versions: seq -> set of short hashes
    forward_pointers,   \* self.forward_pointers: ref -> set of child refs
    inconsistencies,    \* self.inconsistencies: set of refs
    holes,              \* self.holes: set of seq
    terminal,           \* self.terminal: Links, a sorted sequence of refs
    max_known_seq_num,  \* self.max_known_seq_num
    term_cache,         \* self.term_cache: ref -> set of refs
    ingested,           \* the blocks add_block was called with so far
    remote,             \* the Frontier the last reconcile call was given
    diff,               \* what the last reconcile call returned
    lock,               \* self.lock: the thread that holds it, or NoThread
    calls,              \* thread -> its add_block or frontier call in progress
    acquired,           \* the blocks of the add_block calls, in the order they took the lock
    snapshot            \* what the last frontier call returned

vars == <<personal, versions, forward_pointers, inconsistencies, holes, terminal,
          max_known_seq_num, term_cache, ingested, remote, diff,
          lock, calls, acquired, snapshot>>

\* The part of the state that belongs to calls running in threads.
threadvars == <<lock, calls, acquired, snapshot>>

-----------------------------------------------------------------------------
(* Values *)

\* The synthetic genesis reference (0, ShortKey("30303030")), i.e. (0, "0000").
Genesis == <<0, 0>>

\* The short hashes of the blocks: two, so that a height can fork and a parent
\* link can name a hash that disagrees with the stored one.
Hashes == {1, 2}

\* Python's order on (seq, hash) tuples.
LinkLess(a, b) == a[1] < b[1] \/ (a[1] = b[1] /\ a[2] < b[2])

\* Every order in which Python may iterate over the set S.
RECURSIVE Orders(_)
Orders(S) ==
    IF S = {} THEN {<<>>}
    ELSE UNION {{<<x>> \o p : p \in Orders(S \ {x})} : x \in S}

\* sorted(S) for a set of refs.
SortedLinks(S) ==
    CHOOSE s \in Orders(S) : \A i \in 1..(Len(s) - 1) : LinkLess(s[i], s[i + 1])

SeqToSet(s) == {s[i] : i \in 1..Len(s)}

\* d[k] = v for a dict d.
Put(d, k, v) == [x \in (DOMAIN d) \cup {k} |-> IF x = k THEN v ELSE d[x]]

EmptyDict == [x \in {} |-> {}]

\* shorten(block.hash): the leading part of the full hash.
shorten(h) == h[1]

\* Python's None, also what an empty Links tuple counts as in `if not ...`.
None == <<>>

-----------------------------------------------------------------------------
(* The Chain object as a record c of its fields, and its methods *)

\* Chain.__init__
NewChain ==
    [versions |-> EmptyDict,
     forward_pointers |-> EmptyDict,
     inconsistencies |-> {},
     holes |-> {},
     terminal |-> <<Genesis>>,
     max_known_seq_num |-> 0,
     term_cache |-> EmptyDict]

\* Chain.get_next_link: the forward links of `link` as a Links tuple, in each
\* order tuple(val) may give them, or None.
get_next_link(fp, link) ==
    IF link \in DOMAIN fp /\ fp[link] # {} THEN Orders(fp[link]) ELSE {None}

\* Chain._update_versions
_update_versions(c, block_seq_num, block_hash) ==
    IF block_seq_num \notin DOMAIN c.versions
    THEN [c EXCEPT !.versions = Put(c.versions, block_seq_num, {block_hash}),
                   !.max_known_seq_num =
                       IF block_seq_num > @ THEN block_seq_num ELSE @]
    ELSE [c EXCEPT !.versions =
              Put(c.versions, block_seq_num, c.versions[block_seq_num] \cup {block_hash})]

\* Chain._update_forward_pointers
_update_forward_pointers(c, block_links, block_seq_num, block_hash) ==
    LET fp == c.forward_pointers
        parents == SeqToSet(block_links)
    IN  [c EXCEPT !.forward_pointers =
            [r \in (DOMAIN fp) \cup parents |->
                (IF r \in DOMAIN fp THEN fp[r] ELSE {})
                \cup (IF r \in parents THEN {<<block_seq_num, block_hash>>} ELSE {})]]

\* The inner loop of _update_holes: from s downwards while no block is stored.
RECURSIVE HoleWalk(_, _)
HoleWalk(vers, s) ==
    IF s \notin DOMAIN vers /\ s >= 1 THEN {s} \cup HoleWalk(vers, s - 1) ELSE {}

\* _update_holes as it would be without `self.holes.remove(block_seq_num)`.
_update_holes_no_fix(c, block_seq_num, block_links) ==
    [c EXCEPT !.holes =
        @ \cup UNION {HoleWalk(c.versions, block_links[i][1]) : i \in 1..Len(block_links)}]

\* Chain._update_holes
_update_holes(c, block_seq_num, block_links) ==
    [c EXCEPT !.holes =
        (@ \ {block_seq_num})
        \cup UNION {HoleWalk(c.versions, block_links[i][1]) : i \in 1..Len(block_links)}]

\* _update_inconsistencies as it would be without the removal of the block's
\* own ref.
_update_inconsistencies_no_fix(c, block_links, block_seq_num, block_hash) ==
    [c EXCEPT !.inconsistencies =
        @ \cup {l \in SeqToSet(block_links) :
                   l[1] \in DOMAIN c.versions /\ l[2] \notin c.versions[l[1]]}]

\* Chain._update_inconsistencies
_update_inconsistencies(c, block_links, block_seq_num, block_hash) ==
    [c EXCEPT !.inconsistencies =
        (@ \cup {l \in SeqToSet(block_links) :
                    l[1] \in DOMAIN c.versions /\ l[2] \notin c.versions[l[1]]})
        \ {<<block_seq_num, block_hash>>}]

\* Chain.__calc_terminal(current) with self.forward_pointers = fp and
\* self.term_cache = cache: the set of outcomes [terminal, term_cache] the call
\* can have, one for each order in which the sets it walks are iterated.
RECURSIVE __calc_terminal(_, _, _)
RECURSIVE calc_link(_, _, _)
RECURSIVE cached_loop(_, _, _, _, _, _)

\* The loop `for cached_val in cached_next` over the values left in `rest`.
cached_loop(fp, cache, cached_next, rest, new_cache, term) ==
    IF rest = <<>>
    THEN {[terminal |-> term, term_cache |-> cache, new_cache |-> new_cache]}
    ELSE LET cached_val == Head(rest) IN
         UNION {
            IF term_next = None
            THEN \* This is terminal node - update
                 cached_loop(fp, cache, cached_next, Tail(rest), new_cache,
                             term \cup cached_next)
            ELSE \* Not terminal: make next step and invalidate the cache
                 UNION {cached_loop(fp, o.term_cache, cached_next, Tail(rest),
                                    new_cache \cup o.terminal, term \cup o.terminal)
                        : o \in __calc_terminal(fp, cache, term_next)}
            : term_next \in get_next_link(fp, cached_val)}

\* The body of `for blk_link in current` for one blk_link.
calc_link(fp, cache, blk_link) ==
    IF blk_link \notin DOMAIN fp
    THEN {[terminal |-> {blk_link}, term_cache |-> cache]}
    ELSE IF blk_link \in DOMAIN cache /\ cache[blk_link] # {}
    THEN LET cached_next == cache[blk_link] IN
         UNION {
            {[terminal |-> o.terminal,
              term_cache |-> IF o.new_cache # {}
                             THEN Put(o.term_cache, blk_link, o.new_cache)
                             ELSE o.term_cache]
             : o \in cached_loop(fp, cache, cached_next, order, {}, {})}
            : order \in Orders(cached_next)}
    ELSE UNION {
            {[terminal |-> o.terminal,
              term_cache |-> Put(o.term_cache, blk_link, o.terminal)]
             : o \in __calc_terminal(fp, cache, next_blk)}
            : next_blk \in get_next_link(fp, blk_link)}

__calc_terminal(fp, cache, current) ==
    IF current = <<>>
    THEN {[terminal |-> {}, term_cache |-> cache]}
    ELSE UNION {
            {[terminal |-> o1.terminal \cup o2.terminal, term_cache |-> o2.term_cache]
             : o2 \in __calc_terminal(fp, o1.term_cache, Tail(current))}
            : o1 \in calc_link(fp, cache, Head(current))}

\* _update_terminal as it would be without the traversal from self.terminal.
_update_terminal_block_only(c, block_seq_num, block_short_hash) ==
    {[c EXCEPT !.terminal = SortedLinks(o1.terminal), !.term_cache = o1.term_cache]
     : o1 \in __calc_terminal(c.forward_pointers, c.term_cache,
                              <<<<block_seq_num, block_short_hash>>>>)}

\* _update_terminal as it would be without the traversal from the new block.
_update_terminal_old_only(c, block_seq_num, block_short_hash) ==
    {[c EXCEPT !.terminal = SortedLinks(o2.terminal), !.term_cache = o2.term_cache]
     : o2 \in __calc_terminal(c.forward_pointers, c.term_cache, c.terminal)}

\* Chain._update_terminal: every chain the call can leave.
_update_terminal(c, block_seq_num, block_short_hash) ==
    UNION {
        {[c EXCEPT !.terminal = SortedLinks(o1.terminal \cup o2.terminal),
                   !.term_cache = o2.term_cache]
         : o2 \in __calc_terminal(c.forward_pointers, o1.term_cache, c.terminal)}
        : o1 \in __calc_terminal(c.forward_pointers, c.term_cache,
                                 <<<<block_seq_num, block_short_hash>>>>)}

\* Chain.add_block on chain c (whose self.personal is pers): every chain the
\* call can leave.
add_block(c, pers, block) ==
    LET block_links == IF pers THEN block.previous ELSE block.links
        block_seq_num == IF pers THEN block.sequence_number ELSE block.com_seq_num
        block_hash == shorten(block.hash)
        c1 == _update_versions(c, block_seq_num, block_hash)
        c2 == _update_forward_pointers(c1, block_links, block_seq_num, block_hash)
        c3 == _update_holes(c2, block_seq_num, block_links)
        c4 == _update_inconsistencies(c3, block_links, block_seq_num, block_hash)
    IN  _update_terminal(c4, block_seq_num, block_hash)

\* utils.ranges: the canonical Ranges of a set of sequence numbers, its maximal
\* runs (lo, hi) in ascending order.
RECURSIVE ranges(_)
ranges(nums) ==
    IF nums = {} THEN <<>>
    ELSE LET lo == CHOOSE x \in nums : \A y \in nums : x <= y
             hi == CHOOSE x \in nums :
                       /\ \A y \in lo..x : y \in nums
                       /\ x + 1 \notin nums
         IN  <<<<lo, hi>>>> \o ranges(nums \ (lo..hi))

\* utils.expand_ranges: the sequence numbers a Ranges tuple covers.
expand_ranges(range_vals) ==
    UNION {range_vals[i][1]..range_vals[i][2] : i \in 1..Len(range_vals)}

\* Chain.frontier
frontier(c) ==
    [terminal |-> c.terminal,
     holes |-> ranges(c.holes),
     inconsistencies |-> SortedLinks(c.inconsistencies)]

\* max(frontier.terminal) for a non-empty Links tuple.
MaxLink(links) ==
    CHOOSE m \in SeqToSet(links) : \A l \in SeqToSet(links) : l = m \/ LinkLess(l, m)

\* `x in r` for a sequence number x and a Ranges tuple r, as reconcile writes
\* `t[0] not in frontier.holes`: the members of r are (lo, hi) pairs, and
\* Python's == between an int and a tuple is False.
IntInRangesTuple(x, r) == \E k \in 1..Len(r) : FALSE

\* The test of reconcile's inner loop on one tip t of an inconsistency.
Escalates(f, t) ==
    /\ t \in SeqToSet(f.terminal)
    /\ t \notin SeqToSet(f.inconsistencies)
    /\ ~IntInRangesTuple(t[1], f.holes)

\* The loop `for i in self.inconsistencies` over the refs left in `rest`:
\* its outcomes [conflicts, term_cache].
RECURSIVE escalation_loop(_, _, _, _, _)
escalation_loop(fp, cache, f, rest, conflicts) ==
    IF rest = <<>>
    THEN {[conflicts |-> conflicts, term_cache |-> cache]}
    ELSE LET i == Head(rest) IN
         UNION {escalation_loop(fp, o.term_cache, f, Tail(rest),
                    IF \E t \in o.terminal : Escalates(f, t)
                    THEN conflicts \cup {i} ELSE conflicts)
                : o \in __calc_terminal(fp, cache, <<i>>)}

\* missing_ranges as it would be if peer_known_seq forgot `- self.holes`.
missing_ranges_no_holes(c, f) ==
    LET f_holes == expand_ranges(f.holes)
        max_term_seq == MaxLink(f.terminal)[1]
        front_known_seq == expand_ranges(<<<<1, max_term_seq>>>>) \ f_holes
        peer_known_seq == expand_ranges(<<<<1, c.max_known_seq_num>>>>)
        f_diff == front_known_seq \ peer_known_seq
    IN  ranges(f_diff)

\* Chain.reconcile, the missing ranges: what the frontier knows up to its
\* highest tip, less what the peer knows.
missing_ranges(c, f) ==
    LET f_holes == expand_ranges(f.holes)
        max_term_seq == MaxLink(f.terminal)[1]
        front_known_seq == expand_ranges(<<<<1, max_term_seq>>>>) \ f_holes
        peer_known_seq == expand_ranges(<<<<1, c.max_known_seq_num>>>>) \ c.holes
        f_diff == front_known_seq \ peer_known_seq
    IN  ranges(f_diff)

\* terminal_conflicts as it would be with the hash test inverted.
terminal_conflicts_inverted(c, f) ==
    {t \in SeqToSet(f.terminal) :
        t[1] \in DOMAIN c.versions /\ t[2] \in c.versions[t[1]]}

\* Chain.reconcile, the set comprehension: the tips of the frontier whose hash
\* is not among the hashes stored at their height.
terminal_conflicts(c, f) ==
    {t \in SeqToSet(f.terminal) :
        t[1] \in DOMAIN c.versions /\ t[2] \notin c.versions[t[1]]}

\* Chain.reconcile(frontier) on chain c: its outcomes [diff, term_cache]. With
\* an empty frontier.terminal max() raises ValueError before anything else
\* happens. tuple(conflicts) lists the set in any order.
reconcile(c, f) ==
    IF f.terminal = <<>>
    THEN {[diff |-> [status |-> "ValueError", missing |-> <<>>, conflicts |-> <<>>],
           term_cache |-> c.term_cache]}
    ELSE UNION {
            UNION {
                {[diff |-> [status |-> "returned", missing |-> missing_ranges(c, f),
                            conflicts |-> cs],
                  term_cache |-> o.term_cache]
                 : cs \in Orders(o.conflicts)}
                : o \in escalation_loop(c.forward_pointers, c.term_cache, f,
                                        order, terminal_conflicts(c, f))}
            : order \in Orders(c.inconsistencies)}

-----------------------------------------------------------------------------
(* The blocks add_block is called with *)

\* A PlexusBlock as add_block reads it: hash, previous, links, sequence_number,
\* com_seq_num. The full hash is <<short hash, rest>>.
Block(seq, h, prev, lnks, com_seq) ==
    [hash |-> <<h, 0>>, sequence_number |-> seq, previous |-> prev,
     com_seq_num |-> com_seq, links |-> lnks]

\* The refs a block of sequence number s can name as parents.
ParentRefs(s) == {Genesis} \cup {<<t, h>> : t \in 1..(s - 1), h \in Hashes}

\* Blocks of a personal chain: `previous` names one block of the height below
\* (the genesis for the first block).
PersonalBlocks(max_seq) ==
    UNION {{Block(s, h, <<p>>, <<>>, 0) :
               h \in Hashes,
               p \in IF s = 1 THEN {Genesis} ELSE {<<s - 1, g>> : g \in Hashes}}
           : s \in 1..max_seq}

\* Blocks of a community chain: `links` names one block of any lower height
\* (or the genesis).
CommunityBlocks(max_seq) ==
    UNION {{Block(0, h, <<>>, <<p>>, s) : h \in Hashes, p \in ParentRefs(s)}
           : s \in 1..max_seq}

Blocks(pers, max_seq) ==
    IF pers THEN PersonalBlocks(max_seq) ELSE CommunityBlocks(max_seq)

\* The ref under which a chain in mode pers stores the block.
RefOf(pers, block) ==
    <<IF pers THEN block.sequence_number ELSE block.com_seq_num, shorten(block.hash)>>

-----------------------------------------------------------------------------
(* The state machine *)

\* The Chain object the variables hold.
Self ==
    [versions |-> versions,
     forward_pointers |-> forward_pointers,
     inconsistencies |-> inconsistencies,
     holes |-> holes,
     terminal |-> terminal,
     max_known_seq_num |-> max_known_seq_num,
     term_cache |-> term_cache]

\* The variables take the fields of chain c.
Becomes(c) ==
    /\ versions' = c.versions
    /\ forward_pointers' = c.forward_pointers
    /\ inconsistencies' = c.inconsistencies
    /\ holes' = c.holes
    /\ terminal' = c.terminal
    /\ max_known_seq_num' = c.max_known_seq_num
    /\ term_cache' = c.term_cache

NoFrontier == [terminal |-> <<>>, holes |-> <<>>, inconsistencies |-> <<>>]
NoDiff == [status |-> "none", missing |-> <<>>, conflicts |-> <<>>]

\* The threads that call into the chain, and no thread.
Threads == {1, 2}
NoThread == 0

\* A call in progress: op is "add_block" or "frontier"; pc = 0 before the
\* lock is taken, then the number of the step of the `with self.lock` body the
\* thread runs next. `block` is add_block's argument, `result` the fields
\* frontier has read so far.
NoBlock == Block(0, 0, <<>>, <<>>, 0)
Idle == [op |-> "idle", pc |-> 0, block |-> NoBlock, result |-> NoFrontier]

InitChain(pers) ==
    /\ personal = pers
    /\ versions = NewChain.versions
    /\ forward_pointers = NewChain.forward_pointers
    /\ inconsistencies = NewChain.inconsistencies
    /\ holes = NewChain.holes
    /\ terminal = NewChain.terminal
    /\ max_known_seq_num = NewChain.max_known_seq_num
    /\ term_cache = NewChain.term_cache
    /\ ingested = {}
    /\ remote = NoFrontier
    /\ diff = NoDiff
    /\ lock = NoThread
    /\ calls = [t \in Threads |-> Idle]
    /\ acquired = <<>>
    /\ snapshot = NoFrontier

Init == \E pers \in BOOLEAN : InitChain(pers)

InitPersonal == InitChain(TRUE)

\* The block universes of the specifications.
SpecBlocks == [pers \in BOOLEAN |-> Blocks(pers, MaxSeq)]
DeepBlockSet == [pers \in BOOLEAN |-> Blocks(pers, DeepSeq)]

\* One call of add_block with a block of `blocks`. A ref names one block; at
\* most max_blocks different blocks are ingested; a block already ingested is
\* offered again when `again` holds.
AddBlock(blocks, max_blocks, again) ==
    /\ diff = NoDiff
    /\ \E block \in blocks[personal] :
        /\ \A b \in ingested : RefOf(personal, b) = RefOf(personal, block) => b = block
        /\ IF block \in ingested THEN again ELSE Cardinality(ingested) < max_blocks
        /\ \E c \in add_block(Self, personal, block) : Becomes(c)
        /\ ingested' = ingested \cup {block}
    /\ UNCHANGED <<personal, remote, diff>>
    /\ UNCHANGED threadvars

\* The frontiers a remote peer sends: no tip or one tip of height at most
\* max_seq (the genesis included), no hole or one range of holes up to that
\* height, and the tip declared inconsistent or not.
RemoteFrontiers(max_seq) ==
    LET refs == {Genesis} \cup {<<s, h>> : s \in 1..max_seq, h \in Hashes}
        tips == {<<>>} \cup {<<r>> : r \in refs}
        hole_ranges == {<<>>} \cup
            UNION {{<<<<lo, hi>>>> : hi \in lo..max_seq} : lo \in 1..max_seq}
    IN  UNION {{[terminal |-> t, holes |-> h, inconsistencies |-> i]
                : h \in hole_ranges, i \in {<<>>, t}} : t \in tips}

SpecFrontiers == RemoteFrontiers(MaxSeq + 1)

\* One call of reconcile with a frontier of `frontiers`.
ReconcileWith(frontiers) ==
    /\ diff = NoDiff
    /\ \E f \in frontiers :
        /\ remote' = f
        /\ \E o \in reconcile(Self, f) :
            /\ diff' = o.diff
            /\ term_cache' = o.term_cache
    /\ UNCHANGED <<personal, versions, forward_pointers, inconsistencies, holes,
                   terminal, max_known_seq_num, ingested>>
    /\ UNCHANGED threadvars

\* One call of reconcile, with a remote frontier or with the chain's own.
Reconcile == ReconcileWith(SpecFrontiers \cup {frontier(Self)})

\* The caller takes the FrontierDiff (or the exception) of the last reconcile.
Reply ==
    /\ diff # NoDiff
    /\ remote' = NoFrontier
    /\ diff' = NoDiff
    /\ UNCHANGED <<personal, versions, forward_pointers, inconsistencies, holes,
                   terminal, max_known_seq_num, term_cache, ingested>>
    /\ UNCHANGED threadvars

Next ==
    \/ AddBlock(SpecBlocks, MaxBlocks, TRUE)
    \/ Reconcile
    \/ Reply

Spec == Init /\ [][Next]_vars

NextDeep == AddBlock(DeepBlockSet, DeepBlocks, TRUE)

SpecDeep == InitPersonal /\ [][NextDeep]_vars

NextDistinct == AddBlock(DeepBlockSet, DeepBlocks, FALSE)

SpecDistinct == InitPersonal /\ [][NextDistinct]_vars

\* One call of reconcile with the chain's own frontier.
ReconcileOwn == ReconcileWith({frontier(Self)})

\* A personal chain of up to DeepBlocks blocks that is reconciled with its own
\* frontier.
NextOwn ==
    \/ AddBlock(DeepBlockSet, DeepBlocks, FALSE)
    \/ ReconcileOwn
    \/ Reply

SpecOwn == InitPersonal /\ [][NextOwn]_vars

\* A short hash that has not the length of a ShortKey.
BadHashes == {3}

\* Blocks whose parent link has a negative sequence number or a short hash of
\* the wrong length.
MalformedBlocks(pers, max_seq) ==
    UNION {{IF pers THEN Block(s, h, <<p>>, <<>>, 0) ELSE Block(0, h, <<>>, <<p>>, s)
            : h \in Hashes, p \in {<<-1, g>> : g \in Hashes} \cup {<<1, g>> : g \in BadHashes}}
           : s \in 1..max_seq}

MalformedBlockSet ==
    [pers \in BOOLEAN |-> Blocks(pers, MaxSeq) \cup MalformedBlocks(pers, MaxSeq)]

\* add_block called with well-formed and with malformed blocks.
NextMalformed == AddBlock(MalformedBlockSet, MaxBlocks, TRUE)

SpecMalformed == Init /\ [][NextMalformed]_vars

-----------------------------------------------------------------------------
(* add_block and frontier called from several threads, step by step *)

ConcBlockSet == [pers \in BOOLEAN |-> Blocks(pers, ConcSeq)]

ChainVars == <<versions, forward_pointers, inconsistencies, holes, terminal,
               max_known_seq_num, term_cache>>

\* `with self.lock:` entered by thread t as it would be if the lock did not
\* exclude anyone.
acquire_unguarded(l, t) == TRUE

\* `with self.lock:` can be entered by thread t: nobody holds the lock l.
acquire(l, t) == l = NoThread

\* The block of thread t's add_block call, as add_block reads it.
block_links(t) ==
    IF personal THEN calls[t].block.previous ELSE calls[t].block.links
block_seq_num(t) == RefOf(personal, calls[t].block)[1]
block_hash(t) == RefOf(personal, calls[t].block)[2]

\* Thread t calls add_block(block) and reads the block's fields; it has the
\* lock yet to take.
CallAddBlock(t) ==
    /\ diff = NoDiff
    /\ calls[t] = Idle
    /\ \E block \in ConcBlockSet[personal] :
        /\ \A b \in ingested : RefOf(personal, b) = RefOf(personal, block) => b = block
        /\ block \notin ingested => Cardinality(ingested) < ConcBlocks
        /\ Len(acquired) + Cardinality({u \in Threads : calls[u].op = "add_block"
                                                        /\ calls[u].pc = 0}) < ConcBlocks
        /\ calls' = [calls EXCEPT ![t] = [Idle EXCEPT !.op = "add_block", !.block = block]]
        /\ ingested' = ingested \cup {block}
    /\ UNCHANGED <<personal, remote, diff, lock, acquired, snapshot>>
    /\ UNCHANGED ChainVars

\* Thread t reads the frontier property; it has the lock yet to take.
CallFrontier(t) ==
    /\ diff = NoDiff
    /\ calls[t] = Idle
    /\ calls' = [calls EXCEPT ![t] = [Idle EXCEPT !.op = "frontier"]]
    /\ UNCHANGED <<personal, remote, diff, lock, acquired, snapshot, ingested>>
    /\ UNCHANGED ChainVars

\* Thread t enters `with self.lock:`.
Acquire(t) ==
    /\ diff = NoDiff
    /\ calls[t].op # "idle"
    /\ calls[t].pc = 0
    /\ acquire(lock, t)
    /\ lock' = t
    /\ calls' = [calls EXCEPT ![t].pc = 1]
    /\ acquired' = IF calls[t].op = "add_block"
                   THEN Append(acquired, calls[t].block) ELSE acquired
    /\ UNCHANGED <<personal, remote, diff, snapshot, ingested>>
    /\ UNCHANGED ChainVars

\* Thread t is at step n of add_block's critical section.
AtStep(t, n) ==
    /\ diff = NoDiff
    /\ calls[t].op = "add_block"
    /\ calls[t].pc = n

\* Steps 1 to 4 leave the thread inside the critical section.
StepDone(t) ==
    /\ calls' = [calls EXCEPT ![t].pc = @ + 1]
    /\ UNCHANGED <<personal, remote, diff, lock, acquired, snapshot, ingested>>

\* 1. Update versions
Step1(t) ==
    /\ AtStep(t, 1)
    /\ Becomes(_update_versions(Self, block_seq_num(t), block_hash(t)))
    /\ StepDone(t)

\* 2. Update forward pointers
Step2(t) ==
    /\ AtStep(t, 2)
    /\ Becomes(_update_forward_pointers(Self, block_links(t), block_seq_num(t),
                                        block_hash(t)))
    /\ StepDone(t)

\* 3. Update holes
Step3(t) ==
    /\ AtStep(t, 3)
    /\ Becomes(_update_holes(Self, block_seq_num(t), block_links(t)))
    /\ StepDone(t)

\* 4. Update inconsistencies
Step4(t) ==
    /\ AtStep(t, 4)
    /\ Becomes(_update_inconsistencies(Self, block_links(t), block_seq_num(t),
                                       block_hash(t)))
    /\ StepDone(t)

\* 5. Update terminal nodes, and leave `with self.lock:`.
Step5(t) ==
    /\ AtStep(t, 5)
    /\ \E c \in _update_terminal(Self, block_seq_num(t), block_hash(t)) : Becomes(c)
    /\ lock' = NoThread
    /\ calls' = [calls EXCEPT ![t] = Idle]
    /\ UNCHANGED <<personal, remote, diff, acquired, snapshot, ingested>>

\* frontier evaluates the arguments of Frontier(...) one after the other:
\* self.terminal, then ranges(self.holes).
FrontierRead(t) ==
    /\ diff = NoDiff
    /\ calls[t].op = "frontier"
    /\ calls[t].pc \in {1, 2}
    /\ calls' = [calls EXCEPT
                    ![t].pc = @ + 1,
                    ![t].result = IF calls[t].pc = 1
                                  THEN [@ EXCEPT !.terminal = terminal]
                                  ELSE [@ EXCEPT !.holes = ranges(holes)]]
    /\ UNCHANGED <<personal, remote, diff, lock, acquired, snapshot, ingested>>
    /\ UNCHANGED ChainVars

\* Then Links(tuple(sorted(self.inconsistencies))); the Frontier is returned
\* and the lock released.
FrontierReturn(t) ==
    /\ diff = NoDiff
    /\ calls[t].op = "frontier"
    /\ calls[t].pc = 3
    /\ snapshot' = [calls[t].result EXCEPT
                       !.inconsistencies = SortedLinks(inconsistencies)]
    /\ lock' = NoThread
    /\ calls' = [calls EXCEPT ![t] = Idle]
    /\ UNCHANGED <<personal, remote, diff, acquired, ingested>>
    /\ UNCHANGED ChainVars

\* The steps of thread t.
AddBlockSteps(t) ==
    \/ CallAddBlock(t)
    \/ Acquire(t)
    \/ Step1(t)
    \/ Step2(t)
    \/ Step3(t)
    \/ Step4(t)
    \/ Step5(t)

FrontierSteps(t) ==
    \/ CallFrontier(t)
    \/ FrontierRead(t)
    \/ FrontierReturn(t)

\* The threads that read the frontier property.
Readers == {2}

NextLocked ==
    \/ \E t \in Threads : AddBlockSteps(t)
    \/ \E t \in Readers : FrontierSteps(t)

SpecLocked == Init /\ [][NextLocked]_vars

\* The frontiers of a remote peer that declares no hole and no inconsistency.
ConcFrontiers ==
    {f \in RemoteFrontiers(ConcSeq) : f.holes = <<>> /\ f.inconsistencies = <<>>}

\* reconcile takes no lock: a call runs whatever the threads inside add_block
\* are doing.
ReconcileUnlocked == ReconcileWith(ConcFrontiers)

NextConc ==
    \/ \E t \in Threads : AddBlockSteps(t)
    \/ ReconcileUnlocked
    \/ Reply

SpecConc == Init /\ [][NextConc]_vars

-----------------------------------------------------------------------------
(* Properties *)

TerminalSet == SeqToSet(terminal)

\* The refs of the ingested blocks.
StoredRefs == {RefOf(personal, b) : b \in ingested}

\* The fields of a chain other than its cache.
Visible(c) ==
    [versions |-> c.versions,
     forward_pointers |-> c.forward_pointers,
     inconsistencies |-> c.inconsistencies,
     holes |-> c.holes,
     terminal |-> c.terminal,
     max_known_seq_num |-> c.max_known_seq_num]

\* The ingested blocks in ascending order of their refs.
RECURSIVE AscendingBlocks(_)
AscendingBlocks(bs) ==
    IF bs = {} THEN <<>>
    ELSE LET first == CHOOSE b \in bs : \A o \in bs :
                          o = b \/ LinkLess(RefOf(personal, b), RefOf(personal, o))
         IN  <<first>> \o AscendingBlocks(bs \ {first})

\* The chains that calling add_block with the blocks of `order`, one after the
\* other, can make of the chains cs.
RECURSIVE IngestAll(_, _)
IngestAll(cs, order) ==
    IF order = <<>> THEN cs
    ELSE IngestAll(UNION {add_block(c, personal, Head(order)) : c \in cs}, Tail(order))

\* The chains a fresh Chain becomes when it ingests the same blocks in
\* ascending order.
AscendingChains == IngestAll({NewChain}, AscendingBlocks(ingested))

\* C1: every ref in `terminal` has no child recorded in forward_pointers (the
\* genesis ref stays only while no block links to it).
C1_TerminalHasNoChildren ==
    \A t \in TerminalSet : t \notin DOMAIN forward_pointers

\* C2: the terminal set of a chain that ingested distinct blocks in some order
\* is the terminal set of the chain that ingested them in ascending order, so
\* any two orders give the same terminal.
C2_TerminalOrderIndependent ==
    \E c \in AscendingChains : terminal = c.terminal

\* C3: versions, holes and inconsistencies of a chain that ingested distinct
\* blocks in some order are those of the chain that ingested them in
\* ascending order.
C3_StructureOrderIndependent ==
    \E c \in AscendingChains :
        /\ versions = c.versions
        /\ holes = c.holes
        /\ inconsistencies = c.inconsistencies

\* C4: after a call add_block(b), a second call add_block(b) leaves versions,
\* forward_pointers, holes, inconsistencies, terminal and max_known_seq_num as
\* the first call left them.
C4_AddBlockIdempotent ==
    [][\A b \in DeepBlockSet[personal] :
          (ingested' = ingested \cup {b} /\ Self' \in add_block(Self, personal, b))
          => \A c \in add_block(Self', personal, b) : Visible(c) = Visible(Self')]_vars

\* C5: no sequence number is both in holes and a key of versions.
C5_HolesNotStored == holes \cap DOMAIN versions = {}

\* C5 witness: a block was ingested above a height that stores nothing, which
\* is a hole.
C5_Witness == holes # {} /\ DOMAIN versions # {} /\ C5_HolesNotStored

\* C6: every inconsistency (s, h) is at a stored height s whose hashes do not
\* include h, or is above max_known_seq_num and named as a parent; the ref of
\* an ingested block is never an inconsistency.
C6_InconsistenciesDisagree ==
    \A i \in inconsistencies :
        /\ \/ i[1] \in DOMAIN versions /\ i[2] \notin versions[i[1]]
           \/ i[1] > max_known_seq_num /\ i \in DOMAIN forward_pointers
        /\ i \notin StoredRefs

\* C6 witness: an inconsistency is recorded next to a block of another hash at
\* its height, and another parent link names a block that is stored.
C6_Witness ==
    /\ \E i \in inconsistencies : i[1] \in DOMAIN versions /\ i \in DOMAIN forward_pointers
    /\ \E r \in StoredRefs : r \in DOMAIN forward_pointers

\* C7: reconcile given the chain's own frontier returns no missing range and
\* no conflict.
C7_SelfReconcileEmpty ==
    (diff.status = "returned" /\ remote = frontier(Self))
    => (diff.missing = <<>> /\ diff.conflicts = <<>>)

\* C8: the heights 1..max_known_seq_num that are not holes are the heights
\* that store a block.
C8_KnownHeightsStored ==
    (1..max_known_seq_num) \ holes = DOMAIN versions

\* The largest sequence number among the tips of frontier f.
MaxTipSeq(f) ==
    CHOOSE m \in {t[1] : t \in SeqToSet(f.terminal)} :
        \A t \in SeqToSet(f.terminal) : t[1] <= m

\* The heights the remote holds a block at and the local chain does not.
RemoteOnlyHeights ==
    {s \in 1..MaxTipSeq(remote) :
        /\ \A k \in 1..Len(remote.holes) : s < remote.holes[k][1] \/ s > remote.holes[k][2]
        /\ s > max_known_seq_num \/ s \in holes}

\* r is a canonical Ranges tuple covering exactly the set S.
IsRangesOf(r, S) ==
    /\ \A k \in 1..Len(r) : r[k][1] <= r[k][2]
    /\ \A k \in 1..(Len(r) - 1) : r[k][2] + 1 < r[k + 1][1]
    /\ \A s \in S : \E k \in 1..Len(r) : r[k][1] <= s /\ s <= r[k][2]
    /\ \A k \in 1..Len(r) : \A s \in r[k][1]..r[k][2] : s \in S

\* C9: `missing` is the canonical ranges of the heights the remote knows up to
\* its highest tip and the local chain does not; a remote whose highest tip
\* is above max_known_seq_num and not among its holes gives a non-empty
\* `missing` that covers that tip's height.
C9_MissingRanges ==
    diff.status = "returned" =>
        /\ IsRangesOf(diff.missing, RemoteOnlyHeights)
        /\ (/\ MaxTipSeq(remote) > max_known_seq_num
            /\ \A k \in 1..Len(remote.holes) :
                  MaxTipSeq(remote) < remote.holes[k][1]
                  \/ MaxTipSeq(remote) > remote.holes[k][2])
           => /\ diff.missing # <<>>
              /\ diff.missing[Len(diff.missing)][2] = MaxTipSeq(remote)

\* C9 witness: a chain with holes of its own and two heights reconciled with a
\* remote that is ahead of it and declares holes; something is missing.
C9_Witness ==
    /\ diff.status = "returned"
    /\ max_known_seq_num >= 2
    /\ holes # {}
    /\ remote.holes # <<>>
    /\ MaxTipSeq(remote) > max_known_seq_num
    /\ diff.missing # <<>>
    /\ C9_MissingRanges

\* The tips of the remote frontier whose hash disagrees with the hashes stored
\* at their height.
DisagreeingTips ==
    {t \in SeqToSet(remote.terminal) :
        \E s \in DOMAIN versions : s = t[1] /\ \A h \in versions[s] : h # t[2]}

\* C10: `conflicts` contains every tip of the remote frontier whose hash
\* disagrees with the hashes stored at its height, and with no local
\* inconsistency it contains nothing else.
C10_TerminalConflicts ==
    diff.status = "returned" =>
        /\ DisagreeingTips \subseteq SeqToSet(diff.conflicts)
        /\ inconsistencies = {} => SeqToSet(diff.conflicts) = DisagreeingTips

\* C10 witness: with no local inconsistency, a remote tip of a hash that is
\* not stored at its height came back as the one conflict.
C10_Witness ==
    /\ diff.status = "returned"
    /\ inconsistencies = {}
    /\ DisagreeingTips # {}
    /\ Len(diff.conflicts) = 1
    /\ C10_TerminalConflicts

\* The refs reachable from the refs rs through forward_pointers fp, rs included.
RECURSIVE Descendants(_, _)
Descendants(fp, rs) ==
    IF rs = {} THEN {}
    ELSE rs \cup Descendants(fp, UNION {fp[x] : x \in rs \cap DOMAIN fp})

\* The forward tip closure of ref r: the refs reachable from r that have no
\* forward_pointers entry.
ForwardTips(fp, r) == {x \in Descendants(fp, {r}) : x \notin DOMAIN fp}

\* C11: reconcile puts a local inconsistency (that is not itself a conflicting
\* tip of the remote) into `conflicts` exactly when one of its forward tips is
\* in remote.terminal, is not in remote.inconsistencies and has a sequence
\* number outside every range of remote.holes.
C11_EscalationRule ==
    diff.status = "returned" =>
        \A inc \in inconsistencies \ DisagreeingTips :
            inc \in SeqToSet(diff.conflicts)
            <=> \E t \in ForwardTips(forward_pointers, inc) :
                    /\ t \in SeqToSet(remote.terminal)
                    /\ t \notin SeqToSet(remote.inconsistencies)
                    /\ t[1] \notin expand_ranges(remote.holes)

\* The chains a fresh Chain becomes by running, one after the other and each
\* to its end, the add_block calls that took the lock: all of them, or all but
\* the last one.
SerialChains ==
    UNION {IngestAll({NewChain}, SubSeq(acquired, 1, k))
           : k \in {n \in {Len(acquired) - 1, Len(acquired)} : n >= 0}}

\* C12: reconcile runs under the lock, so the diff it returns while an
\* add_block call is in progress is computed on the chain as it was before
\* that call or as it is after it, never on a chain with only some of the five
\* update steps applied: its `missing` is the `missing` of one of these two
\* chains.
C12_ReconcileUnderLock ==
    diff.status = "returned" =>
        \E c \in SerialChains : diff.missing = missing_ranges(c, remote)

\* Some thread is inside add_block's critical section.
AddBlockRunning == \E t \in Threads : calls[t].op = "add_block" /\ calls[t].pc >= 1

\* C13: whenever no add_block call is inside its critical section, the chain
\* is the one that the add_block calls made so far give when run one after the
\* other in the order they took the lock; and the Frontier a frontier call
\* returned is the frontier of the chain as it was after some number of these
\* complete calls.
C13_LockSerialises ==
    /\ ~AddBlockRunning => Self \in IngestAll({NewChain}, acquired)
    /\ snapshot # NoFrontier =>
          \E k \in 0..Len(acquired) :
              \E c \in IngestAll({NewChain}, SubSeq(acquired, 1, k)) :
                  snapshot = frontier(c)

\* C13 witness: a thread is between the steps of the second add_block call
\* while the other thread's frontier call waits for the lock, after an earlier
\* frontier call returned a chain that held a block.
C13_Witness ==
    /\ Len(acquired) = 2
    /\ \E t \in Threads :
        /\ calls[t].op = "add_block"
        /\ calls[t].pc \in 2..5
        /\ lock = t
        /\ \E u \in Threads \ {t} : calls[u].op = "frontier" /\ calls[u].pc = 0
    /\ snapshot # NoFrontier
    /\ snapshot.terminal # <<Genesis>>

\* The blocks of scenario S2, with "aaaa" the hash 1 and "bbbb" the hash 2:
\* b1 = (1, "aaaa") with parent (0, "0000"), b2 = (2, "bbbb") with parent
\* (1, "aaaa").
S2_b1 == Block(1, 1, <<Genesis>>, <<>>, 0)
S2_b2 == Block(2, 2, <<<<1, 1>>>>, <<>>, 0)

\* C14: a personal chain that ingested only b2 has terminal [(2, "bbbb")],
\* holes {1} and no inconsistency; one that ingested b2 and b1 has the
\* terminal, holes and inconsistencies of the chain that ingested b1 then b2.
C14_OutOfOrderArrival ==
    personal =>
        /\ ingested = {S2_b2} =>
              /\ terminal = <<<<2, 2>>>>
              /\ holes = {1}
              /\ inconsistencies = {}
        /\ ingested = {S2_b1, S2_b2} =>
              \E c \in IngestAll({NewChain}, <<S2_b1, S2_b2>>) :
                  /\ terminal = c.terminal
                  /\ holes = c.holes
                  /\ inconsistencies = c.inconsistencies

\* A block is malformed when one of its parent links has a sequence number
\* below 0 or a short hash of the wrong length (the genesis ref (0, "0000") is
\* the parent of a first block).
Malformed(block) ==
    \E l \in SeqToSet(IF personal THEN block.previous ELSE block.links) :
        l[1] < 0 \/ l[2] \in BadHashes

\* C15: add_block rejects a malformed block before it changes anything, so a
\* chain that was only ever given malformed blocks has the versions,
\* forward_pointers, holes, inconsistencies, terminal and max_known_seq_num of
\* a new chain.
C15_MalformedRejected ==
    (\A b \in ingested : Malformed(b)) => Visible(Self) = Visible(NewChain)

\* C16: the `conflicts` reconcile returns are in canonical Links form: strictly
\* ascending by (sequence number, short hash), hence without duplicates.
C16_ConflictsCanonical ==
    diff.status = "returned" =>
        \A i \in 1..(Len(diff.conflicts) - 1) :
            LinkLess(diff.conflicts[i], diff.conflicts[i + 1])

\* C17: reconciled with a remote frontier whose highest tip is below
\* max_known_seq_num, the chain misses nothing.
C17_RemoteBehindMissesNothing ==
    (diff.status = "returned" /\ MaxTipSeq(remote) < max_known_seq_num)
    => diff.missing = <<>>

\* The refs the chain knows: the genesis, the stored blocks and their parents.
KnownRefs == {Genesis} \cup StoredRefs \cup DOMAIN forward_pointers

\* C18: for every ref r, __calc_terminal([r]) returns the forward tips of r,
\* the refs reachable from r that have no forward pointer, as a traversal that
\* never looks at term_cache does.
C18_CacheTransparent ==
    \A r \in KnownRefs :
        \A o \in __calc_terminal(forward_pointers, term_cache, <<r>>) :
            o.terminal = ForwardTips(forward_pointers, r)

\* Some ingested block names the genesis ref among its parent links.
GenesisLinked ==
    \E b \in ingested :
        Genesis \in SeqToSet(IF personal THEN b.previous ELSE b.links)

\* C19: the genesis ref is in `terminal` as long as no ingested block links to
\* it, and from the first add_block of a block that links to it onward it is
\* never in `terminal` again (the ingested blocks only grow).
C19_GenesisHandling ==
    IF GenesisLinked THEN Genesis \notin TerminalSet ELSE Genesis \in TerminalSet

\* C19 witness: a block that links to the genesis and a block that does not
\* were ingested; the genesis is no tip any more.
C19_Witness ==
    /\ GenesisLinked
    /\ \E b \in ingested :
          Genesis \notin SeqToSet(IF personal THEN b.previous ELSE b.links)
    /\ Genesis \notin TerminalSet
    /\ terminal # <<>>

\* C20: every ingested block ref without a forward_pointers entry is in
\* `terminal`, whatever term_cache holds, and `terminal` is not empty.
C20_NoTipLost ==
    /\ \A r \in StoredRefs : r \notin DOMAIN forward_pointers => r \in TerminalSet
    /\ terminal # <<>>

\* C20 witness: term_cache holds an entry that is not the forward tips of its
\* ref any more, and the chain has several tips, all of them in `terminal`.
C20_Witness ==
    /\ \E r \in DOMAIN term_cache : term_cache[r] # ForwardTips(forward_pointers, r)
    /\ Cardinality({r \in StoredRefs : r \notin DOMAIN forward_pointers}) >= 2
    /\ C20_NoTipLost

====
